---- MODULE Spec2Model ----
(***************************************************************************)
(* A model of src/mecab-api-server/app.py: the text normalizer, the        *)
(* known-morph loader, the comprehension scorer and the /analyze handler.  *)
(*                                                                         *)
(* A Python str is a sequence of characters; a character is a one-element  *)
(* name ("a", "SP", "MARU", ...).  Concatenation is \o, so that the        *)
(* separator-less key lemma + inflection is the real concatenation.        *)
(***************************************************************************)
EXTENDS Integers, Sequences, FiniteSets, TLC

VARIABLES
    pc,               \* position of the single-threaded passes (normalizer, scorer, calculator)
    text,             \* the raw text handed to preprocess_text / calculate_comprehension
    processed_text,   \* preprocess_text(text)
    reprocessed_text, \* preprocess_text(processed_text)
    parsed,           \* what self.mecab.parse(processed_text) gave: its lines, or that it raised
    morphemes,        \* the list of (lemma, inflection) tuples being scored
    known_morphs,     \* ComprehensionCalculator.known_morphs of the calculator under study
    result,           \* what calculate_comprehension / calculate_comprehension_score returned
    mecab_calls,      \* how many times the tagger's parse was invoked
    loader,           \* the thread inside load_known_morphs_from_csv: position and locals
    reader,           \* the thread inside calculate_comprehension_score: position and locals
    MECAB_TAGGER,     \* the global tagger: TRUE for a MeCab.Tagger, FALSE for None
    requests,         \* the /analyze requests in flight or answered: position, locals, response
    health            \* the last answer of GET /health

normVars == <<text, processed_text, reprocessed_text>>
calcVars == <<parsed, morphemes, known_morphs, result, mecab_calls>>
threadVars == <<loader, reader>>
srvVars == <<MECAB_TAGGER, requests, health>>
vars == <<pc, normVars, calcVars, threadVars, srvVars>>

(***************************************************************************)
(* Bounds                                                                  *)
(***************************************************************************)
MaxTextLen == 3
MaxRun == 29
MaxLines == 2
MaxExtractLines == 3
MaxCalcTextLen == 2
MaxRows == 2
NumRequests == 2

(***************************************************************************)
(* Characters                                                              *)
(***************************************************************************)
\* the character class of the first re.sub: full-width period, comma, exclamation, question mark
Punctuation == {"MARU", "TEN", "BIKKURI", "HATENA"}

\* what \s and str.strip() take for whitespace: here a space and a tab
Whitespace == {"SP", "TAB"}

Ordinary == {"a"}

Alphabet == Punctuation \cup Whitespace \cup Ordinary

StringsUpTo(n, alphabet) == UNION {[1..k -> alphabet] : k \in 0..n}

(***************************************************************************)
(* MeCabAnalyzer.preprocess_text                                           *)
(***************************************************************************)
RECURSIVE SpacePunctuation(_)
\* re.sub(r'([。、！？])', r' \1 ', text)
SpacePunctuation(s) ==
    IF s = <<>> THEN <<>>
    ELSE IF Head(s) \in Punctuation
         THEN <<"SP", Head(s), "SP">> \o SpacePunctuation(Tail(s))
         ELSE <<Head(s)>> \o SpacePunctuation(Tail(s))

RECURSIVE LStrip(_)
LStrip(s) ==
    IF s # <<>> /\ Head(s) \in Whitespace THEN LStrip(Tail(s)) ELSE s

RECURSIVE RStrip(_)
RStrip(s) ==
    IF s # <<>> /\ s[Len(s)] \in Whitespace THEN RStrip(SubSeq(s, 1, Len(s) - 1)) ELSE s

\* str.strip()
Strip(s) == RStrip(LStrip(s))

RECURSIVE CollapseWhitespace(_)
\* re.sub(r'\s+', ' ', s): every maximal run of whitespace becomes one space
CollapseWhitespace(s) ==
    IF s = <<>> THEN <<>>
    ELSE IF Head(s) \in Whitespace
         THEN <<"SP">> \o CollapseWhitespace(LStrip(s))
         ELSE <<Head(s)>> \o CollapseWhitespace(Tail(s))

\* the two substitutions in the wrong order
preprocess_text_reordered(s) == SpacePunctuation(CollapseWhitespace(Strip(s)))

preprocess_text(s) == CollapseWhitespace(Strip(SpacePunctuation(s)))

(***************************************************************************)
(* Python float arithmetic (IEEE 754 binary64, round-half-to-even), as     *)
(* used by int((known_occurrences / total_occurrences) * 100).             *)
(* A float is [m |-> the significand's bits, most significant first,       *)
(* e |-> the exponent of its last bit]: the value is m * 2^e.  Zero has    *)
(* m = <<>>.  Every intermediate number stays far below 2^31.              *)
(***************************************************************************)
\* the significand width of a C double (sys.float_info.mant_dig)
MantDig == 53

FloatZero == [m |-> <<>>, e |-> 0]

\* the width of the limbs the significand is cut into for a multiplication
LimbBits == 13

RECURSIVE Pow2(_)
Pow2(i) == IF i = 0 THEN 1 ELSE 2 * Pow2(i - 1)

RECURSIVE Pow2Mod(_, _)
\* 2^i mod n, by squaring
Pow2Mod(i, n) ==
    IF i = 0 THEN 1 % n
    ELSE LET h == Pow2Mod(i \div 2, n)
         IN  IF i % 2 = 0 THEN (h * h) % n ELSE (2 * h * h) % n

RECURSIVE BitsToInt(_)
\* the integer a short bit sequence (most significant first) denotes
BitsToInt(bits) ==
    IF bits = <<>> THEN 0
    ELSE 2 * BitsToInt(SubSeq(bits, 1, Len(bits) - 1)) + bits[Len(bits)]

\* the width-bit binary numeral of v, most significant first
IntToBits(v, width) == [i \in 1..width |-> (v \div Pow2(width - i)) % 2]

\* bits without its leading zeros
StripLeadingZeros(bits) ==
    IF \A i \in 1..Len(bits) : bits[i] = 0 THEN <<>>
    ELSE SubSeq(bits, CHOOSE i \in 1..Len(bits) :
                        bits[i] = 1 /\ \A j \in 1..(i - 1) : bits[j] = 0,
                Len(bits))

\* round-half-to-even of the significand m (exponent e), given the discarded
\* part: half = it is >= 1/2 ulp, sticky = it is not exactly 0 or 1/2 ulp
RoundNearestEven(m, e, half, sticky) ==
    IF half /\ (sticky \/ m[Len(m)] = 1)
    THEN IF \A i \in 1..Len(m) : m[i] = 1
         THEN [m |-> [i \in 1..Len(m) |-> IF i = 1 THEN 1 ELSE 0], e |-> e + 1]
         ELSE LET z == CHOOSE i \in 1..Len(m) :
                          m[i] = 0 /\ \A j \in (i + 1)..Len(m) : m[j] = 1
              IN  [m |-> [i \in 1..Len(m) |->
                            IF i < z THEN m[i] ELSE IF i = z THEN 1 ELSE 0],
                   e |-> e]
    ELSE [m |-> m, e |-> e]

\* count further quotient bits of r / n (r < n) by long division, then the
\* remainder: after i steps the remainder is r * 2^i mod n
DivBits(r, n, count) ==
    [bits |-> [i \in 1..count |-> (2 * ((r * Pow2Mod(i - 1, n)) % n)) \div n],
     rem  |-> (r * Pow2Mod(count, n)) % n]

RECURSIVE ShiftToReach(_, _, _)
\* the least s >= from with k * 2^s >= n
ShiftToReach(k, n, from) ==
    IF k * Pow2(from) >= n THEN from ELSE ShiftToReach(k, n, from + 1)

\* k / n for Python ints 0 <= k <= n, n > 0: the correctly rounded quotient
FloatDiv(k, n) ==
    IF k = 0 THEN FloatZero
    ELSE LET s == ShiftToReach(k, n, 0)
             q == DivBits(k * Pow2(s) - n, n, MantDig - 1)
         IN  RoundNearestEven(<<1>> \o q.bits, 0 - s - (MantDig - 1),
                              2 * q.rem >= n, 2 * q.rem # n /\ q.rem # 0)

\* the limbs of LimbBits bits of a bit sequence, the least significant limb first
Limbs(bits) ==
    LET n == (Len(bits) + LimbBits - 1) \div LimbBits
    IN  [j \in 1..n |->
            BitsToInt(SubSeq(bits,
                             IF Len(bits) - j * LimbBits + 1 < 1 THEN 1
                             ELSE Len(bits) - j * LimbBits + 1,
                             Len(bits) - (j - 1) * LimbBits))]

RECURSIVE MulLimbs(_, _, _)
\* limbs * c + carry, as bits, most significant first
MulLimbs(limbs, c, carry) ==
    IF limbs = <<>> THEN IntToBits(carry, LimbBits)
    ELSE LET t == c * Head(limbs) + carry
         IN  MulLimbs(Tail(limbs), c, t \div Pow2(LimbBits))
                \o IntToBits(t % Pow2(LimbBits), LimbBits)

\* x * c for a float x and a small positive int c: the exact product, rounded
FloatMulInt(x, c) ==
    IF x.m = <<>> THEN FloatZero
    ELSE LET p    == StripLeadingZeros(MulLimbs(Limbs(x.m), c, 0))
             drop == Len(p) - MantDig
         IN  IF drop <= 0 THEN [m |-> p, e |-> x.e]
             ELSE RoundNearestEven(SubSeq(p, 1, MantDig), x.e + drop,
                                   p[MantDig + 1] = 1,
                                   \E i \in (MantDig + 2)..Len(p) : p[i] = 1)

\* int(x) for a float x >= 0 below 2^30: truncation toward zero
FloatToInt(x) ==
    IF x.m = <<>> THEN 0
    ELSE IF x.e >= 0 THEN BitsToInt(x.m) * Pow2(x.e)
    ELSE IF Len(x.m) + x.e <= 0 THEN 0
    ELSE BitsToInt(SubSeq(x.m, 1, Len(x.m) + x.e))

\* int((known / total) * 100), line 361
PercentOf(known, total) == FloatToInt(FloatMulInt(FloatDiv(known, total), 100))

(***************************************************************************)
(* Values of the variables a specification does not use                    *)
(***************************************************************************)
NoText == <<"None">>
NoResult == [kind |-> "none"]

NormIdle ==
    /\ text = NoText
    /\ processed_text = NoText
    /\ reprocessed_text = NoText

CalcIdle ==
    /\ parsed = <<>>
    /\ morphemes = <<>>
    /\ known_morphs = {}
    /\ result = NoResult
    /\ mecab_calls = 0

LoaderIdle == [pc |-> "idle"]
ReaderIdle == [pc |-> "idle"]

ThreadsIdle ==
    /\ loader = LoaderIdle
    /\ reader = ReaderIdle

NoHealth == [status |-> "none"]

ServerIdle ==
    /\ MECAB_TAGGER = TRUE
    /\ requests = <<>>
    /\ health = NoHealth

(***************************************************************************)
(* SpecNorm: preprocess_text applied to a text, then to its own result     *)
(***************************************************************************)
InitNorm ==
    /\ pc = "start"
    /\ text \in StringsUpTo(MaxTextLen, Alphabet)
    /\ processed_text = NoText
    /\ reprocessed_text = NoText
    /\ CalcIdle
    /\ ThreadsIdle
    /\ ServerIdle

Preprocess ==
    /\ pc = "start"
    /\ processed_text' = preprocess_text(text)
    /\ pc' = "processed"
    /\ UNCHANGED <<srvVars, text, reprocessed_text, calcVars, threadVars>>

PreprocessAgain ==
    /\ pc = "processed"
    /\ reprocessed_text' = preprocess_text(processed_text)
    /\ pc' = "reprocessed"
    /\ UNCHANGED <<srvVars, text, processed_text, calcVars, threadVars>>

NextNorm == Preprocess \/ PreprocessAgain

SpecNorm == InitNorm /\ [][NextNorm]_vars

\* C10: normalizing an already normalized text returns it unchanged
C10_Idempotent ==
    pc = "reprocessed" => reprocessed_text = processed_text

\* a text with punctuation, mixed whitespace and an ordinary character went through both passes
C10_Witness ==
    /\ pc = "reprocessed"
    /\ text = <<"a", "TAB", "MARU">>
    /\ processed_text = <<"a", "SP", "MARU">>
    /\ reprocessed_text = processed_text

(***************************************************************************)
(* ComprehensionCalculator.calculate_comprehension_score                   *)
(* A morpheme is a tuple <<lemma, inflection>> of two strings.             *)
(***************************************************************************)
ScoreKeySwapped(m) == m[2] \o m[1]

\* anki_morph_key = lemma + inflection, line 343
ScoreKey(m) == m[1] \o m[2]

IsKnownMorphInverted(morph, known) == morph \notin known

\* _is_known_morph
IsKnownMorph(morph, known) == morph \in known

\* the dict morph_counts built by the loop of lines 340-344
MorphCounts(ms) ==
    [key \in {ScoreKey(ms[i]) : i \in 1..Len(ms)} |->
        Cardinality({i \in 1..Len(ms) : ScoreKey(ms[i]) = key})]

RECURSIVE SumCounts(_, _)
\* the sum of the counts of the given keys
SumCounts(counts, keys) ==
    IF keys = {} THEN 0
    ELSE LET key == CHOOSE k \in keys : TRUE
         IN  counts[key] + SumCounts(counts, keys \ {key})

calculate_comprehension_score(ms, known) ==
    IF ms = <<>> THEN 0
    ELSE LET morph_counts      == MorphCounts(ms)
             total_occurrences == SumCounts(morph_counts, DOMAIN morph_counts)
             known_occurrences ==
                 SumCounts(morph_counts,
                           {key \in DOMAIN morph_counts : IsKnownMorph(key, known)})
         IN  IF total_occurrences = 0 THEN 0
             ELSE PercentOf(known_occurrences, total_occurrences)

(***************************************************************************)
(* SpecScore: one scoring pass over a morpheme list and a known set.       *)
(* The list is a run of one sample morpheme followed by a run of another.  *)
(***************************************************************************)
a == <<"a">>
ab == <<"a", "b">>
bc == <<"b", "c">>
c == <<"c">>

\* ("ab","c") and ("a","bc") share the key "abc"; ("c","c") has the key "cc"
SampleMorphemes == {<<ab, c>>, <<a, bc>>, <<c, c>>}

SampleKeys == {ab \o c, c \o c}

Repeat(m, n) == [i \in 1..n |-> m]

InitScore ==
    /\ pc = "start"
    /\ \E m1 \in SampleMorphemes, m2 \in SampleMorphemes :
         \E n1 \in 0..MaxRun, n2 \in 0..MaxRun :
            morphemes = Repeat(m1, n1) \o Repeat(m2, n2)
    /\ known_morphs \in SUBSET SampleKeys
    /\ parsed = <<>>
    /\ result = NoResult
    /\ mecab_calls = 0
    /\ NormIdle
    /\ ThreadsIdle
    /\ ServerIdle

Score ==
    /\ pc = "start"
    /\ result' = [kind |-> "score",
                  score |-> calculate_comprehension_score(morphemes, known_morphs)]
    /\ pc' = "scored"
    /\ UNCHANGED <<srvVars, normVars, parsed, morphemes, known_morphs, mecab_calls, threadVars>>

NextScore == Score

SpecScore == InitScore /\ [][NextScore]_vars

\* the claims' own reading of a morpheme's key: dictionary form, then surface, no separator
KeyOf(m) == m[1] \o m[2]

\* the number of morphemes of the list, with multiplicity, whose key is in the known set
KnownOccurrences(ms, known) == Cardinality({i \in 1..Len(ms) : KeyOf(ms[i]) \in known})

\* C6: for a non-empty list the score is exactly floor(100 * knownOccurrences / totalOccurrences)
C6_ExactFloor ==
    (pc = "scored" /\ morphemes # <<>>) =>
        result.score = (100 * KnownOccurrences(morphemes, known_morphs)) \div Len(morphemes)

\* C7: a non-empty list whose every key is known scores 100
C7_AllKnown ==
    (pc = "scored" /\ morphemes # <<>>
        /\ \A i \in 1..Len(morphemes) : KeyOf(morphemes[i]) \in known_morphs) =>
        result.score = 100

\* a scored list of two different keys, both known, of more than one occurrence each
C7_Witness ==
    /\ pc = "scored"
    /\ Len(morphemes) >= 4
    /\ \E i, j \in 1..Len(morphemes) : KeyOf(morphemes[i]) # KeyOf(morphemes[j])
    /\ \A i \in 1..Len(morphemes) : KeyOf(morphemes[i]) \in known_morphs
    /\ result.score = 100
(***************************************************************************)
(* MeCabAnalyzer.extract_morphemes                                         *)
(* The tagger is an external library: what parse returns is any sequence   *)
(* of lines, or it raises.  A line is given as line.split('\t'): its       *)
(* parts, the first the surface string and the second (when there is one)  *)
(* already split at the commas into its feature strings.                   *)
(***************************************************************************)
Star == <<"*">>
Kigou == <<"KIGOU">>          \* '記号'
HojoKigou == <<"HOJOKIGOU">>  \* '補助記号'
Kuuhaku == <<"KUUHAKU">>      \* '空白'
Meishi == <<"MEISHI">>        \* '名詞', a part of speech that is kept
EOS == <<"E", "O", "S">>

\* should_exclude_pos
should_exclude_pos(pos) == pos \in {Kigou, HojoKigou, Kuuhaku}

\* line == 'EOS' or not line.strip(): a line of one part that is EOS or whitespace only
IsSkippedLine(parts) ==
    \/ parts = <<EOS>>
    \/ Len(parts) = 1 /\ Strip(parts[1]) = <<>>

\* the body of the loop of lines 108-134 for one line: the morphemes it appends
ExtractLine(parts) ==
    IF IsSkippedLine(parts) THEN <<>>
    ELSE IF Len(parts) < 2 THEN <<>>
    ELSE LET inflection == parts[1]
             features   == parts[2]
         IN  IF Len(features) < 7 THEN <<>>
             ELSE LET lemma == IF features[7] # Star THEN features[7] ELSE inflection
                      pos   == features[1]
                  IN  IF should_exclude_pos(pos) THEN <<>>
                      ELSE <<<<lemma, inflection>>>>

\* a loop that gives up at the first line without a complete feature part
RECURSIVE ExtractLinesUntilMalformed(_)
ExtractLinesUntilMalformed(lines) ==
    IF lines = <<>> THEN <<>>
    ELSE LET parts == Head(lines)
         IN  IF ~IsSkippedLine(parts) /\ (Len(parts) < 2 \/ Len(parts[2]) < 7) THEN <<>>
             ELSE ExtractLine(parts) \o ExtractLinesUntilMalformed(Tail(lines))

RECURSIVE ExtractLines(_)
ExtractLines(lines) ==
    IF lines = <<>> THEN <<>>
    ELSE ExtractLine(Head(lines)) \o ExtractLines(Tail(lines))

\* whether extract_morphemes reaches self.mecab.parse for this text (line 97)
ReachesParse(txt) == txt # <<>>

\* extract_morphemes(text) when the tagger answers out: [raised |-> BOOLEAN, lines |-> ...]
extract_morphemes(txt, out) ==
    IF ~ReachesParse(txt) THEN <<>>
    ELSE IF out.raised THEN <<>>
    ELSE ExtractLines(out.lines)

Features(pos, lemma) == <<pos, Star, Star, Star, Star, Star, lemma>>

\* sample lines of a tagger's output
SampleLines ==
    { <<EOS>>,                               \* the end-of-sentence line
      <<<<>>>>,                              \* an empty line
      <<c>>,                                 \* no tab: no feature part
      <<c, <<Meishi, Star>>>>,               \* fewer than 7 features
      <<<<"MARU">>, Features(Kigou, Star)>>, \* a symbol
      <<c, Features(Meishi, Star)>>,         \* no base form: the morpheme (c, c)
      <<c, Features(Meishi, ab)>>,           \* the morpheme (ab, c)
      <<bc, Features(Meishi, a)>> }          \* the morpheme (a, bc)

TaggerOutcomes ==
    {[raised |-> TRUE, lines |-> <<>>]} \cup
    {[raised |-> FALSE, lines |-> ls] : ls \in StringsUpTo(MaxLines, SampleLines)}

(***************************************************************************)
(* SpecExtract: one call of MeCabAnalyzer.extract_morphemes, the tagger    *)
(* answering with any sequence of up to MaxExtractLines lines              *)
(***************************************************************************)
ExtractSampleLines ==
    SampleLines \cup
    { <<<<"MARU">>, Features(HojoKigou, Star)>>,   \* an auxiliary symbol
      <<<<"SP">>, Features(Kuuhaku, Star)>> }      \* a whitespace token

ExtractOutcomes ==
    {[raised |-> TRUE, lines |-> <<>>]} \cup
    {[raised |-> FALSE, lines |-> ls] : ls \in StringsUpTo(MaxExtractLines, ExtractSampleLines)}

InitExtract ==
    /\ pc = "start"
    /\ text \in {<<>>, <<"a">>, <<"a", "MARU">>}
    /\ processed_text = NoText
    /\ reprocessed_text = NoText
    /\ CalcIdle
    /\ ThreadsIdle
    /\ ServerIdle

\* line 97: an empty text returns [] before the tagger is asked
ExtractNoText ==
    /\ pc = "start"
    /\ ~ReachesParse(text)
    /\ morphemes' = extract_morphemes(text, [raised |-> TRUE, lines |-> <<>>])
    /\ pc' = "done"
    /\ UNCHANGED <<srvVars, normVars, parsed, known_morphs, result, mecab_calls, threadVars>>

\* lines 100-140: the text is preprocessed, the tagger answers out, the lines are read
ExtractParsed ==
    /\ pc = "start"
    /\ ReachesParse(text)
    /\ processed_text' = preprocess_text(text)
    /\ \E out \in ExtractOutcomes :
         /\ parsed' = out
         /\ morphemes' = extract_morphemes(text, out)
    /\ mecab_calls' = mecab_calls + 1
    /\ pc' = "done"
    /\ UNCHANGED <<srvVars, text, reprocessed_text, known_morphs, result, threadVars>>

NextExtract == ExtractNoText \/ ExtractParsed

SpecExtract == InitExtract /\ [][NextExtract]_vars

\* the claim's reading of a line: well-formed when it has a surface, a feature part and
\* at least 7 features; its part of speech is the first feature, its morpheme is
\* (base form, surface), the surface standing in for a base form of '*'
ExclusionSet == {Kigou, HojoKigou, Kuuhaku}
WellFormedLine(parts) == Len(parts) >= 2 /\ Len(parts[2]) >= 7
KeptLine(parts) == WellFormedLine(parts) /\ parts[2][1] \notin ExclusionSet
MorphemeOfLine(parts) == <<IF parts[2][7] = Star THEN parts[1] ELSE parts[2][7], parts[1]>>
MorphemesOfKeptLines(lines) ==
    LET kept == SelectSeq(lines, KeptLine)
    IN  [i \in 1..Len(kept) |-> MorphemeOfLine(kept[i])]

NoTextProvided == "No text provided"
CouldNotExtract == "Could not extract morphemes from text"

Failure(error) == [success |-> FALSE, error |-> error, video_id |-> "None"]

\* `not text` alone, without the strip
IsBlankTextNoStrip(txt) == txt = <<>>

\* not text or not text.strip(), line 303
IsBlankText(txt) == txt = <<>> \/ Strip(txt) = <<>>

calculate_comprehension(txt, known, out) ==
    IF IsBlankText(txt) THEN Failure(NoTextProvided)
    ELSE LET ms == extract_morphemes(txt, out)
         IN  IF ms = <<>> THEN Failure(CouldNotExtract)
             ELSE [success |-> TRUE,
                   video_id |-> "None",
                   comprehension_score |-> calculate_comprehension_score(ms, known),
                   subtitle_length |-> Len(txt),
                   morpheme_count |-> Len(ms),
                   known_morphs_total |-> Cardinality(known)]

(***************************************************************************)
(* SpecCalc: one call of calculate_comprehension on a calculator whose     *)
(* known set is loaded, with a working analyzer                            *)
(***************************************************************************)
CalcAlphabet == {"SP", "TAB", "MARU", "a"}

InitCalc ==
    /\ pc = "start"
    /\ text \in StringsUpTo(MaxCalcTextLen, CalcAlphabet)
    /\ processed_text = NoText
    /\ reprocessed_text = NoText
    /\ known_morphs \in SUBSET SampleKeys
    /\ parsed = <<>>
    /\ morphemes = <<>>
    /\ result = NoResult
    /\ mecab_calls = 0
    /\ ThreadsIdle
    /\ ServerIdle

\* the call returns before the analyzer is asked (lines 303-308)
CalculateBlank ==
    /\ pc = "start"
    /\ IsBlankText(text)
    /\ result' = calculate_comprehension(text, known_morphs, [raised |-> TRUE, lines |-> <<>>])
    /\ pc' = "done"
    /\ UNCHANGED <<srvVars, normVars, parsed, morphemes, known_morphs, mecab_calls, threadVars>>

\* the call asks the analyzer, whose tagger answers out (lines 310-332)
CalculateParsed ==
    /\ pc = "start"
    /\ ~IsBlankText(text)
    /\ \E out \in TaggerOutcomes :
         /\ parsed' = out
         /\ morphemes' = extract_morphemes(text, out)
         /\ result' = calculate_comprehension(text, known_morphs, out)
    /\ processed_text' = IF ReachesParse(text) THEN preprocess_text(text) ELSE processed_text
    /\ mecab_calls' = IF ReachesParse(text) THEN mecab_calls + 1 ELSE mecab_calls
    /\ pc' = "done"
    /\ UNCHANGED <<srvVars, text, reprocessed_text, known_morphs, threadVars>>

NextCalc == CalculateBlank \/ CalculateParsed

SpecCalc == InitCalc /\ [][NextCalc]_vars

\* C8: a non-empty morpheme list with no known key scores 0, and the result is a success
C8_NoneKnown ==
    (pc = "done" /\ morphemes # <<>>
        /\ \A i \in 1..Len(morphemes) : KeyOf(morphemes[i]) \notin known_morphs) =>
        /\ result.success = TRUE
        /\ "comprehension_score" \in DOMAIN result
        /\ result.comprehension_score = 0

\* two morphemes were extracted, the known set is loaded with another key, the result is score 0
C8_Witness ==
    /\ pc = "done"
    /\ Len(morphemes) = 2
    /\ known_morphs # {}
    /\ \A i \in 1..Len(morphemes) : KeyOf(morphemes[i]) \notin known_morphs
    /\ result.success = TRUE
    /\ result.comprehension_score = 0

\* C9: a text that normalizes to the empty string fails with the empty-input reason,
\* has no score field, and the tagger was not invoked
C9_EmptyInput ==
    (pc = "done" /\ preprocess_text(text) = <<>>) =>
        /\ result.success = FALSE
        /\ result.error = NoTextProvided
        /\ "comprehension_score" \notin DOMAIN result
        /\ mecab_calls = 0
        /\ parsed = <<>>

\* a whitespace-only, non-empty text was refused
C9_Witness ==
    /\ pc = "done"
    /\ text = <<"SP", "TAB">>
    /\ result = Failure(NoTextProvided)
    /\ mecab_calls = 0
(***************************************************************************)
(* ComprehensionCalculator.load_known_morphs_from_csv                      *)
(* The CSV text is given as what csv.DictReader yields: a sequence of      *)
(* dicts that all have the header's field names as keys.  A row shorter    *)
(* than the header has None (DictReader's restval) for its missing fields. *)
(***************************************************************************)
MorphLemma == "Morph-Lemma"
MorphInflection == "Morph-Inflection"

\* None, which is no str
NoneCell == <<"None">>

\* row.get(col, '')
RowGet(row, col) == IF col \in DOMAIN row THEN row[col] ELSE <<>>

\* .strip() of a cell that is None raises AttributeError, caught at line 288
RowRaises(row) == RowGet(row, MorphLemma) = NoneCell \/ RowGet(row, MorphInflection) = NoneCell

\* `if lemma and inflection` after the two strips, line 279
RowAccepted(row) ==
    /\ Strip(RowGet(row, MorphLemma)) # <<>>
    /\ Strip(RowGet(row, MorphInflection)) # <<>>

\* anki_morph_key = lemma + inflection, line 281
LoaderKey(row) == Strip(RowGet(row, MorphLemma)) \o Strip(RowGet(row, MorphInflection))

RECURSIVE LoadRows(_, _, _)
\* the loop of lines 273-283 from a given set and count, then the return of line 286
\* (or of line 290 when a row raises)
LoadRows(rows, known, count) ==
    IF rows = <<>> THEN [ret |-> count > 0, known |-> known, count |-> count]
    ELSE IF RowRaises(Head(rows)) THEN [ret |-> FALSE, known |-> known, count |-> count]
    ELSE IF RowAccepted(Head(rows))
         THEN LoadRows(Tail(rows), known \cup {LoaderKey(Head(rows))}, count + 1)
         ELSE LoadRows(Tail(rows), known, count)

\* load_known_morphs_from_csv run to its end by one thread: the set is cleared first
load_known_morphs_from_csv(rows) == LoadRows(rows, {}, 0)

Row(lemma, inflection) ==
    [col \in {MorphLemma, MorphInflection} |->
        IF col = MorphLemma THEN lemma ELSE inflection]

\* sample dicts for a header with both columns: two valid rows (one to be trimmed),
\* a blank field, a whitespace-only field, and a short row (its last field None)
FullRows ==
    { Row(c, c),
      Row(<<"SP", "a", "b">>, <<"c", "TAB">>),
      Row(c, <<>>),
      Row(<<"SP">>, c),
      Row(c, NoneCell) }

\* sample dicts for a header without the inflection column
LemmaOnlyRows == {[col \in {MorphLemma} |-> c]}

CsvInputs == StringsUpTo(MaxRows, FullRows) \cup StringsUpTo(MaxRows, LemmaOnlyRows)

(***************************************************************************)
(* SpecLoad: one calculator shared by a thread that loads it and a thread  *)
(* that scores with it.  set.clear(), set.add() and the `in` of            *)
(* _is_known_morph are each atomic; the threads interleave between them.   *)
(***************************************************************************)
RECURSIVE DistinctKeys(_, _)
\* the keys of morph_counts in the order the dict holds them (first occurrence)
DistinctKeys(ms, seen) ==
    IF ms = <<>> THEN <<>>
    ELSE IF ScoreKey(Head(ms)) \in seen THEN DistinctKeys(Tail(ms), seen)
    ELSE <<ScoreKey(Head(ms))>> \o DistinctKeys(Tail(ms), seen \cup {ScoreKey(Head(ms))})

ReaderLists == {<<<<ab, c>>>>, <<<<c, c>>, <<ab, c>>, <<c, c>>>>, <<<<c, ab>>, <<c, c>>>>}

InitLoad ==
    /\ pc = "threads"
    /\ NormIdle
    /\ CalcIdle
    /\ ThreadsIdle
    /\ ServerIdle

\* line 266: the load begins by emptying the set in place
LoadClear ==
    /\ loader.pc \in {"idle", "returned"}
    /\ \E rows \in CsvInputs :
         loader' = [pc |-> "rows", rows |-> rows, next |-> 1, count |-> 0,
                    before |-> known_morphs]
    /\ known_morphs' = {}
    /\ UNCHANGED <<srvVars, pc, normVars, parsed, morphemes, result, mecab_calls, reader>>

\* lines 273-283 for one row: skipped, or its key added
LoadRow ==
    /\ loader.pc = "rows"
    /\ loader.next <= Len(loader.rows)
    /\ ~RowRaises(loader.rows[loader.next])
    /\ LET row == loader.rows[loader.next]
       IN  IF RowAccepted(row)
           THEN /\ known_morphs' = known_morphs \cup {LoaderKey(row)}
                /\ loader' = [loader EXCEPT !.next = @ + 1, !.count = @ + 1]
           ELSE /\ known_morphs' = known_morphs
                /\ loader' = [loader EXCEPT !.next = @ + 1]
    /\ UNCHANGED <<srvVars, pc, normVars, parsed, morphemes, result, mecab_calls, reader>>

\* a None field: AttributeError, lines 288-290
LoadRaise ==
    /\ loader.pc = "rows"
    /\ loader.next <= Len(loader.rows)
    /\ RowRaises(loader.rows[loader.next])
    /\ loader' = [pc |-> "returned", rows |-> loader.rows, next |-> loader.next,
                  count |-> loader.count, before |-> loader.before, ret |-> FALSE]
    /\ UNCHANGED <<srvVars, pc, normVars, calcVars, reader>>

\* lines 285-286
LoadReturn ==
    /\ loader.pc = "rows"
    /\ loader.next > Len(loader.rows)
    /\ loader' = [pc |-> "returned", rows |-> loader.rows, next |-> loader.next,
                  count |-> loader.count, before |-> loader.before,
                  ret |-> (loader.count > 0)]
    /\ UNCHANGED <<srvVars, pc, normVars, calcVars, reader>>

\* lines 336-347: the pass counts its morphemes
ScoreBegin ==
    /\ reader.pc \in {"idle", "done"}
    /\ \E ms \in ReaderLists :
         /\ morphemes' = ms
         /\ reader' = [pc |-> "lookups", keys |-> DistinctKeys(ms, {}), next |-> 1,
                       known_occurrences |-> 0]
    /\ result' = NoResult
    /\ UNCHANGED <<srvVars, pc, normVars, parsed, known_morphs, mecab_calls, loader>>

\* lines 351-355 for one key: one _is_known_morph lookup in the shared set
ScoreLookup ==
    /\ reader.pc = "lookups"
    /\ reader.next <= Len(reader.keys)
    /\ LET morph == reader.keys[reader.next]
       IN  reader' = [reader EXCEPT
                        !.next = @ + 1,
                        !.known_occurrences =
                            IF IsKnownMorph(morph, known_morphs)
                            THEN @ + MorphCounts(morphemes)[morph]
                            ELSE @]
    /\ UNCHANGED <<srvVars, pc, normVars, calcVars, loader>>

\* lines 358-375
ScoreEnd ==
    /\ reader.pc = "lookups"
    /\ reader.next > Len(reader.keys)
    /\ result' = [kind |-> "score",
                  score |-> PercentOf(reader.known_occurrences, Len(morphemes))]
    /\ reader' = [pc |-> "done"]
    /\ UNCHANGED <<srvVars, pc, normVars, parsed, morphemes, known_morphs, mecab_calls, loader>>

NextLoad ==
    \/ LoadClear \/ LoadRow \/ LoadRaise \/ LoadReturn
    \/ ScoreBegin \/ ScoreLookup \/ ScoreEnd

SpecLoad == InitLoad /\ [][NextLoad]_vars

\* the claims' reading of a row: valid when both fields are there and non-blank after trimming
FieldMissing(row, col) ==
    \/ col \notin DOMAIN row
    \/ row[col] = NoneCell
    \/ Strip(row[col]) = <<>>

ValidRow(row) == ~FieldMissing(row, MorphLemma) /\ ~FieldMissing(row, MorphInflection)

ValidRows(rows) == {i \in 1..Len(rows) : ValidRow(rows[i])}

KeysOfValidRows(rows) ==
    {Strip(rows[i][MorphLemma]) \o Strip(rows[i][MorphInflection]) : i \in ValidRows(rows)}

\* C1: a load that returns failure, all its rows being malformed, leaves the set as it was
C1_FailedLoadKeepsSet ==
    (loader.pc = "returned" /\ loader.ret = FALSE
        /\ loader.rows # <<>> /\ ValidRows(loader.rows) = {}) =>
        known_morphs = loader.before

\* a load that has a valid row and no row that aborts it
CleanLoad(rows) == ValidRows(rows) # {} /\ \A i \in 1..Len(rows) : ~RowRaises(rows[i])

\* C2: every lookup a scoring pass makes while such a load of the same calculator is
\* under way reads the old set or the new set, nothing in between
C2_AtomicPublish ==
    [][(/\ reader.pc = "lookups"
        /\ reader'.pc = "lookups"
        /\ reader'.next = reader.next + 1
        /\ loader.pc = "rows"
        /\ CleanLoad(loader.rows)) =>
            known_morphs \in {loader.before, KeysOfValidRows(loader.rows)}]_vars

\* C5: rows missing a field are skipped and the others accepted: with a valid row the load
\* succeeds, counts the valid rows and holds exactly their keys
C5_SkipsMalformedRows ==
    (loader.pc = "returned" /\ ValidRows(loader.rows) # {}) =>
        /\ loader.ret = TRUE
        /\ loader.count = Cardinality(ValidRows(loader.rows))
        /\ known_morphs = KeysOfValidRows(loader.rows)
(***************************************************************************)
(* Spec: the server.  The process-scoped comprehension_calculator's set is *)
(* known_morphs; every /analyze request has its own temp_calculator.       *)
(* Requests are served concurrently and interleave between the steps.      *)
(***************************************************************************)
Requests == 1..NumRequests

VideoId == "video"

MissingCsvData == "Missing csv_data field in request body"
InvalidBase64 == "Invalid base64 CSV data"
FailedToLoad == "Failed to load morphs from CSV data"
NoKnownMorphsLoaded == "No known morphs loaded. Please include csv_data in POST request."
NoSubtitles == "No Japanese subtitles found for this video"
MeCabNotInitialized == "MeCab not initialized"
KeyErrorScore == "'comprehension_score'"

ErrorBody(error) == [success |-> FALSE, error |-> error, video_id |-> VideoId]

IdleRequest == [pc |-> "idle"]

\* a request answered at the given step of the handler
Responded(at, status, body, exception) ==
    [pc |-> "responded", at |-> at, status |-> status, body |-> body,
     exception |-> exception]

\* what get_japanese_subtitles returns: None, or the joined transcript text
NoSubtitleText == <<"None">>
SubtitleSamples == {NoSubtitleText, <<>>, <<"SP">>, <<"a">>}

\* what the tagger answers in the server runs
ServerTaggerOutcomes ==
    { [raised |-> TRUE, lines |-> <<>>],
      [raised |-> FALSE, lines |-> <<<<EOS>>>>],
      [raised |-> FALSE, lines |-> <<<<<<"MARU">>, Features(Kigou, Star)>>, <<EOS>>>>],
      [raised |-> FALSE, lines |-> <<<<c, Features(Meishi, Star)>>, <<EOS>>>>],
      [raised |-> FALSE, lines |-> <<<<c, Features(Meishi, ab)>>,
                                      <<c, Features(Meishi, Star)>>, <<EOS>>>>] }

\* a handler whose temp_calculator names the process-scoped calculator from the start
SharedCalculator(r) == "global"

\* line 440: temp_calculator = ComprehensionCalculator(), an object of request r alone;
\* "global" names the calculator of line 388, "temp" the request's own, whose set is
\* requests[r].temp_known
NewCalculator(r) == "temp"

\* the set of the calculator a request scores with
KnownOf(req) == IF req.calc = "global" THEN known_morphs ELSE req.temp_known

\* a server whose global calculator was loaded before the first request
InitLoaded ==
    /\ pc = "serving"
    /\ NormIdle
    /\ parsed = <<>>
    /\ morphemes = <<>>
    /\ known_morphs = SampleKeys
    /\ result = NoResult
    /\ mecab_calls = 0
    /\ ThreadsIdle
    /\ MECAB_TAGGER \in BOOLEAN
    /\ requests = [r \in Requests |-> IdleRequest]
    /\ health = NoHealth

\* lines 381-388: initialize_mecab succeeded or not; the global calculator is empty
Init ==
    /\ pc = "serving"
    /\ NormIdle
    /\ CalcIdle
    /\ ThreadsIdle
    /\ MECAB_TAGGER \in BOOLEAN
    /\ requests = [r \in Requests |-> IdleRequest]
    /\ health = NoHealth

ServerFrame == UNCHANGED <<pc, normVars, calcVars, threadVars, MECAB_TAGGER, health>>

\* POST without csv_data, or with csv_data that is no base64 of UTF-8: lines 447-463
PostRejected(r) ==
    /\ requests[r].pc = "idle"
    /\ \E error \in {MissingCsvData, InvalidBase64} :
         requests' = [requests EXCEPT ![r] = Responded("post", 400, ErrorBody(error), "none")]
    /\ ServerFrame

\* POST with CSV data: the request's own calculator is loaded, lines 440 and 465-475
PostLoad(r) ==
    /\ requests[r].pc = "idle"
    /\ \E rows \in CsvInputs :
         LET temp_calculator == NewCalculator(r)
             loaded == load_known_morphs_from_csv(rows)
         IN  \* the load clears and fills the set of the object it is called on
             /\ known_morphs' = IF temp_calculator = "global" THEN loaded.known
                                ELSE known_morphs
             /\ requests' = [requests EXCEPT ![r] =
                    IF ~loaded.ret
                    THEN Responded("post", 400, ErrorBody(FailedToLoad), "none")
                    ELSE [pc |-> "fetch", calc |-> temp_calculator,
                          temp_known |-> IF temp_calculator = "temp" THEN loaded.known
                                         ELSE {}]]
    /\ UNCHANGED <<pc, normVars, parsed, morphemes, result, mecab_calls, threadVars,
                   MECAB_TAGGER, health>>

\* GET: the process-scoped calculator, when it holds anything: lines 477-487
Get(r) ==
    /\ requests[r].pc = "idle"
    /\ requests' = [requests EXCEPT ![r] =
           IF known_morphs = {}
           THEN Responded("get", 400, ErrorBody(NoKnownMorphsLoaded), "none")
           ELSE [pc |-> "fetch", calc |-> "global", temp_known |-> {}]]
    /\ ServerFrame

\* lines 489-497
FetchSubtitles(r) ==
    /\ requests[r].pc = "fetch"
    /\ \E subtitles \in SubtitleSamples :
         requests' = [requests EXCEPT ![r] =
             IF subtitles = NoSubtitleText \/ subtitles = <<>>
             THEN Responded("fetch", 404, ErrorBody(NoSubtitles), "none")
             ELSE [pc |-> "analyze", calc |-> requests[r].calc,
                   temp_known |-> requests[r].temp_known, subtitles |-> subtitles]]
    /\ ServerFrame

\* lines 499-512: MeCabAnalyzer() raises without a tagger (line 84); line 502 reads
\* result['comprehension_score'], a KeyError on a failure dict; both end in the
\* handler's except clause
Analyze(r) ==
    /\ requests[r].pc = "analyze"
    /\ LET req == requests[r]
       IN  IF ~MECAB_TAGGER
           THEN requests' = [requests EXCEPT ![r] =
                    Responded("analyze", 500, ErrorBody(MeCabNotInitialized), "Exception") @@
                    [subtitles |-> req.subtitles, tokenized |-> FALSE, morphemes |-> <<>>]]
           ELSE \E out \in ServerTaggerOutcomes :
                  LET res == calculate_comprehension(req.subtitles, KnownOf(req), out)
                      ran == [subtitles |-> req.subtitles,
                              tokenized |-> ~IsBlankText(req.subtitles),
                              morphemes |-> IF IsBlankText(req.subtitles) THEN <<>>
                                            ELSE extract_morphemes(req.subtitles, out)]
                  IN  requests' = [requests EXCEPT ![r] =
                          IF "comprehension_score" \notin DOMAIN res
                          THEN Responded("analyze", 500, ErrorBody(KeyErrorScore), "KeyError")
                                  @@ ran
                          ELSE Responded("analyze", 200, res, "none") @@ ran]
    /\ ServerFrame

\* the text health_check tokenizes, "こんにちは"
HealthPhrase == <<"a">>

\* GET /health, lines 390-415
HealthCheck ==
    /\ \E out \in ServerTaggerOutcomes :
         health' = [status |-> "OK",
                    mecab_working |->
                        IF MECAB_TAGGER THEN Len(extract_morphemes(HealthPhrase, out)) > 0
                        ELSE FALSE,
                    mecab_available |-> MECAB_TAGGER,
                    known_morphs_loaded |-> Cardinality(known_morphs) > 0,
                    known_morphs_count |-> Cardinality(known_morphs)]
    /\ UNCHANGED <<pc, normVars, calcVars, threadVars, MECAB_TAGGER, requests>>

Next ==
    \/ \E r \in Requests :
          PostRejected(r) \/ PostLoad(r) \/ Get(r) \/ FetchSubtitles(r) \/ Analyze(r)
    \/ HealthCheck

Spec == Init /\ [][Next]_vars

\* C3: without a tagger, tokenization yields no morphemes and raises nothing, so the
\* analysis ends in the no-morphemes failure
C3_UnavailableDegrades ==
    \A r \in Requests :
        (requests[r].pc = "responded" /\ requests[r].at = "analyze" /\ ~MECAB_TAGGER) =>
            /\ requests[r].exception = "none"
            /\ requests[r].body.success = FALSE
            /\ requests[r].body.error = CouldNotExtract

\* C4: when a non-blank text yields no usable morpheme, the caller of the analysis gets
\* the no-morphemes failure: no score, and no exception on the way
C4_NoMorphemesFailure ==
    \A r \in Requests :
        (requests[r].pc = "responded" /\ requests[r].at = "analyze"
            /\ requests[r].tokenized /\ requests[r].morphemes = <<>>) =>
            /\ requests[r].exception = "none"
            /\ requests[r].body.success = FALSE
            /\ requests[r].body.error = CouldNotExtract
            /\ "comprehension_score" \notin DOMAIN requests[r].body

\* C12: no step of any request (POST load, GET, subtitle fetch, scoring, health query)
\* changes the process-scoped set; a step changes the state of one request only, and
\* a POST analysis is scored with the set its own request loaded
C12_GlobalSetUntouched ==
    [][ /\ known_morphs' = known_morphs
        /\ \A r, q \in Requests :
              (r # q /\ requests'[r] # requests[r]) => requests'[q] = requests[q]
        /\ \A r \in Requests :
              (requests[r].pc = "analyze" /\ requests[r].calc = "temp"
                  /\ requests'[r].pc = "responded" /\ requests'[r].status = 200) =>
                  /\ requests'[r].body.known_morphs_total =
                         Cardinality(requests[r].temp_known)
                  /\ requests'[r].body.comprehension_score =
                         calculate_comprehension_score(requests'[r].morphemes,
                                                       requests[r].temp_known)
      ]_vars

\* two POST analyses of the same morphemes were scored, each with the set it loaded
\* itself, a health query was answered, and the process-scoped set is what it was
C12_Witness ==
    /\ \A r \in Requests :
          /\ requests[r].pc = "responded"
          /\ requests[r].at = "analyze"
          /\ requests[r].status = 200
    /\ requests[1].morphemes = <<<<ab, c>>, <<c, c>>>>
    /\ requests[2].morphemes = requests[1].morphemes
    /\ requests[1].body.known_morphs_total = 1
    /\ requests[1].body.comprehension_score = 50
    /\ requests[2].body.known_morphs_total = 2
    /\ requests[2].body.comprehension_score = 100
    /\ health # NoHealth
    /\ known_morphs = {}

\* C13: the process-scoped set is empty in every reachable state, so no GET analysis
\* gets past the check of line 479: it is answered 400 'No known morphs loaded' and
\* never reaches the subtitle fetch or the scoring, and every health answer reports
\* a count of 0
C13_GlobalSetAlwaysEmpty ==
    /\ known_morphs = {}
    /\ \A r \in Requests :
          /\ requests[r].pc \in {"fetch", "analyze"} => requests[r].calc # "global"
          /\ (requests[r].pc = "responded" /\ requests[r].at = "get") =>
                 /\ requests[r].status = 400
                 /\ requests[r].body = ErrorBody(NoKnownMorphsLoaded)
    /\ health # NoHealth =>
          /\ health.known_morphs_count = 0
          /\ health.known_morphs_loaded = FALSE

\* after a POST analysis loaded a set and was scored, a GET analysis was refused and a
\* health query reported no known morphs
C13_Witness ==
    /\ requests[1].pc = "responded"
    /\ requests[1].at = "analyze"
    /\ requests[1].status = 200
    /\ requests[1].body.known_morphs_total = 2
    /\ requests[2] = Responded("get", 400, ErrorBody(NoKnownMorphsLoaded), "none")
    /\ health # NoHealth
    /\ health.known_morphs_count = 0
====
